---- MODULE Spec2Model ----
(***************************************************************************)
(* State-machine model of src/script.js, the To-Do list application: the   *)
(* module-level task array, its LocalStorage blob, the rendered task cards *)
(* with their pending transition/animation listeners, the two modals, and  *)
(* one action per event handler.                                           *)
(*                                                                         *)
(* JavaScript strings that the code inspects (trim, toLowerCase, includes, *)
(* toString) are sequences of one-character strings; enumeration values    *)
(* that the code only compares (priority, status, select values) are       *)
(* TLA+ strings.                                                           *)
(***************************************************************************)
EXTENDS Integers, Sequences, FiniteSets, TLC

VARIABLES
    pc,                 \* "loading" before the script ran, "running" after, "crashed" when line 39 threw
    now,                \* the wall clock read by Date.now() and new Date()
    storage,            \* localStorage item "tasks"
    tasks,              \* the module-level `tasks` value
    taskToDeleteId,     \* id awaiting confirmation, or null
    isEditing,
    confirmModalActive, \* confirmModal.classList contains "active"
    editModalActive,    \* editModal.classList contains "active"
    editTaskId,         \* value of the hidden input edit-task-id
    searchValue,        \* taskSearchInput.value
    filterValue,        \* taskFilterSelect.value
    sortValue,          \* taskSortSelect.value
    cards,              \* ids of the task cards in taskList, in document order
    fading,             \* ids of cards carrying a pending transitionend listener of deleteTask
    animating,          \* ids of cards carrying a pending animationend listener of toggleTaskStatus
    outcome             \* how the handler that ran last ended: "done", "no-op", "deferred" or the exception it threw

vars == <<pc, now, storage, tasks, taskToDeleteId, isEditing, confirmModalActive,
          editModalActive, editTaskId, searchValue, filterValue, sortValue,
          cards, fading, animating, outcome>>

-----------------------------------------------------------------------------
(* Bounds of the model *)

MaxTasks == 2
MaxClock == 1
ClockStart == 9

-----------------------------------------------------------------------------
(* JavaScript values *)

\* null, as a value comparable with the character sequences that model strings
null == <<"null">>

RECURSIVE trimStart(_)
trimStart(s) == IF s # <<>> /\ Head(s) = " " THEN trimStart(Tail(s)) ELSE s

RECURSIVE trimEnd(_)
trimEnd(s) == IF s # <<>> /\ s[Len(s)] = " " THEN trimEnd(SubSeq(s, 1, Len(s) - 1)) ELSE s

\* A trim that strips nothing
trimNothing(s) == s

\* String.prototype.trim
trim(s) == trimEnd(trimStart(s))

lowerChar(c) == CASE c = "A" -> "a" [] c = "B" -> "b" [] OTHER -> c

toLowerCase(s) == [i \in 1..Len(s) |-> lowerChar(s[i])]

includes(s, sub) ==
    \E k \in 0..(Len(s) - Len(sub)) : SubSeq(s, k + 1, k + Len(sub)) = sub

DigitChar(d) == CASE d = 0 -> "0" [] d = 1 -> "1" [] d = 2 -> "2" [] d = 3 -> "3"
                  [] d = 4 -> "4" [] d = 5 -> "5" [] d = 6 -> "6" [] d = 7 -> "7"
                  [] d = 8 -> "8" [] d = 9 -> "9"

DigitValue(c) == CHOOSE d \in 0..9 : DigitChar(d) = c

\* Number.prototype.toString of a non-negative integer: its decimal digits
RECURSIVE toString(_)
toString(n) == IF n < 10 THEN <<DigitChar(n)>>
               ELSE Append(toString(n \div 10), DigitChar(n % 10))

\* Date.prototype.toISOString: a fixed-width rendering of the instant
toISOString(n) == <<DigitChar((n \div 100) % 10), DigitChar((n \div 10) % 10),
                    DigitChar(n % 10), "Z">>

\* new Date(isoString) read as a number, as the date comparators do
dateValue(s) == 100 * DigitValue(s[1]) + 10 * DigitValue(s[2]) + DigitValue(s[3])

generateUniqueId(t) == toString(t)

-----------------------------------------------------------------------------
(* JSON text of the "tasks" item *)

jsonString(v) == [quoted |-> TRUE, text |-> v]
jsonNull == [quoted |-> FALSE, text |-> "null"]

stringifyTask(t) ==
    << <<"id", jsonString(t.id)>>,
       <<"title", jsonString(t.title)>>,
       <<"description", jsonString(t.description)>>,
       <<"priority", jsonString(t.priority)>>,
       <<"dueDate", IF t.dueDate = null THEN jsonNull ELSE jsonString(t.dueDate)>>,
       <<"status", jsonString(t.status)>>,
       <<"createdAt", jsonString(t.createdAt)>> >>

member(obj, key) == (CHOOSE i \in 1..Len(obj) : obj[i][1] = key)

parseMember(obj, key) == obj[member(obj, key)][2].text

parseTask(obj) ==
    [id          |-> parseMember(obj, "id"),
     title       |-> parseMember(obj, "title"),
     description |-> parseMember(obj, "description"),
     priority    |-> parseMember(obj, "priority"),
     dueDate     |-> IF obj[member(obj, "dueDate")][2].quoted
                     THEN parseMember(obj, "dueDate") ELSE null,
     status      |-> parseMember(obj, "status"),
     createdAt   |-> parseMember(obj, "createdAt")]

\* A JavaScript value held by `tasks`: an array of task objects, or something else
Array(items) == [type |-> "array", items |-> items]
NonArray(type) == [type |-> type, items |-> <<>>]

Absent == [kind |-> "absent", elems |-> <<>>]
Malformed == [kind |-> "malformed", elems |-> <<>>]
NullText == [kind |-> "null", elems |-> <<>>]
ObjectText == [kind |-> "object", elems |-> <<>>]

JSONstringify(v) ==
    [kind |-> "array", elems |-> [i \in 1..Len(v.items) |-> stringifyTask(v.items[i])]]

\* Whether JSON.parse accepts the item (getItem's null is coerced to "null")
isJSON(item) == item.kind # "malformed"

\* JSON.parse of getItem's result, for an item it accepts
JSONparse(item) ==
    CASE item.kind = "array" -> Array([i \in 1..Len(item.elems) |-> parseTask(item.elems[i])])
      [] item.kind = "object" -> NonArray("object")
      [] OTHER -> NonArray("null")

\* JavaScript truthiness of a parsed value: null is falsy, objects and arrays are truthy
truthy(v) == v.type # "null"

\* A saveTasks that writes the array without its last element
saveTasksDropsLast(v) ==
    JSONstringify(Array(SubSeq(v.items, 1, Len(v.items) - 1)))

\* localStorage.setItem("tasks", JSON.stringify(tasks)): the item it writes
saveTasks(v) == JSONstringify(v)

\* JSON.parse(localStorage.getItem("tasks")) || [], for an item JSON.parse accepts
loadTasks(item) == IF truthy(JSONparse(item)) THEN JSONparse(item) ELSE Array(<<>>)

-----------------------------------------------------------------------------
(* CRUD operations on the array *)

\* A task object created as already completed
newTaskCompleted(taskData, clock) ==
    [id          |-> generateUniqueId(clock),
     title       |-> taskData.title,
     description |-> taskData.description,
     priority    |-> taskData.priority,
     dueDate     |-> IF taskData.dueDate = <<>> THEN null ELSE taskData.dueDate,
     status      |-> "Completed",
     createdAt   |-> toISOString(clock)]

newTask(taskData, clock) ==
    [id          |-> generateUniqueId(clock),
     title       |-> taskData.title,
     description |-> taskData.description,
     priority    |-> taskData.priority,
     dueDate     |-> IF taskData.dueDate = <<>> THEN null ELSE taskData.dueDate,
     status      |-> "Pending",
     createdAt   |-> toISOString(clock)]

\* tasks.unshift(newTask)
\* An add that pushes the new task at the end
addTaskAppends(items, taskData, clock) ==
    items \o <<newTask(taskData, clock)>>

addTask(items, taskData, clock) ==
    <<newTask(taskData, clock)>> \o items

\* tasks.filter((task) => task.id !== id)
deleteTask(items, id) ==
    LET keep(t) == t.id # id IN SelectSeq(items, keep)

\* tasks.findIndex((task) => task.id === id), 0 standing for -1
\* A lookup that falls back on the first task when no task has the id
findIndexOrFirst(items, id) ==
    IF \E i \in 1..Len(items) : items[i].id = id
    THEN CHOOSE i \in 1..Len(items) :
             items[i].id = id /\ \A j \in 1..(i - 1) : items[j].id # id
    ELSE IF items # <<>> THEN 1 ELSE 0

findIndex(items, id) ==
    IF \E i \in 1..Len(items) : items[i].id = id
    THEN CHOOSE i \in 1..Len(items) :
             items[i].id = id /\ \A j \in 1..(i - 1) : items[j].id # id
    ELSE 0

\* A flip that can only complete
flipToCompleted(status) == "Completed"

flip(status) == IF status = "Completed" THEN "Pending" ELSE "Completed"

toggleTaskStatus(items, id) ==
    LET i == findIndex(items, id) IN
    IF i # 0 THEN [items EXCEPT ![i].status = flip(@)] ELSE items

\* The spread with its operands swapped, { ...updatedData, ...task }: the task's
\* own values win
spreadSwapped(task, updatedData) == task

\* { ...task, ...updatedData }: updatedData's own keys replace the task's
spread(task, updatedData) ==
    [k \in DOMAIN task |-> IF k \in DOMAIN updatedData THEN updatedData[k] ELSE task[k]]

updateTask(items, id, updatedData) ==
    LET i == findIndex(items, id) IN
    IF i # 0 THEN [items EXCEPT ![i] = spread(@, updatedData)] ELSE items

-----------------------------------------------------------------------------
(* Filtering and sorting *)

prioMapDesc(p) == CASE p = "High" -> 3 [] p = "Medium" -> 2 [] p = "Low" -> 1

\* The weights of priority-desc under the name of priority-asc
prioMapAscHighFirst(p) == CASE p = "High" -> 3 [] p = "Medium" -> 2 [] p = "Low" -> 1

prioMapAsc(p) == CASE p = "High" -> 1 [] p = "Medium" -> 2 [] p = "Low" -> 3

statusMap(s) == CASE s = "Pending" -> 1 [] s = "Completed" -> 2

\* A comparator whose default case orders by date
compareDefaultByDate(sort, a, b) ==
    CASE sort = "date-desc" -> dateValue(b.createdAt) - dateValue(a.createdAt)
      [] sort = "priority-desc" -> prioMapDesc(b.priority) - prioMapDesc(a.priority)
      [] sort = "priority-asc" -> prioMapAsc(b.priority) - prioMapAsc(a.priority)
      [] sort = "status-desc" -> statusMap(a.status) - statusMap(b.status)
      [] OTHER -> dateValue(a.createdAt) - dateValue(b.createdAt)

\* the comparator of currentTasks.sort
compare(sort, a, b) ==
    CASE sort = "date-desc" -> dateValue(b.createdAt) - dateValue(a.createdAt)
      [] sort = "date-asc" -> dateValue(a.createdAt) - dateValue(b.createdAt)
      [] sort = "priority-desc" -> prioMapDesc(b.priority) - prioMapDesc(a.priority)
      [] sort = "priority-asc" -> prioMapAsc(b.priority) - prioMapAsc(a.priority)
      [] sort = "status-desc" -> statusMap(a.status) - statusMap(b.status)
      [] OTHER -> 0

\* An insertion that puts x before the elements it ties with
RECURSIVE insertSortedUnstable(_, _, _)
insertSortedUnstable(sort, s, x) ==
    IF s = <<>> THEN <<x>>
    ELSE IF compare(sort, Head(s), x) < 0
         THEN <<Head(s)>> \o insertSortedUnstable(sort, Tail(s), x)
         ELSE <<x>> \o s

\* Array.prototype.sort is stable: x goes before the first element that must follow it
RECURSIVE insertSorted(_, _, _)
insertSorted(sort, s, x) ==
    IF s = <<>> THEN <<x>>
    ELSE IF compare(sort, Head(s), x) <= 0
         THEN <<Head(s)>> \o insertSorted(sort, Tail(s), x)
         ELSE <<x>> \o s

RECURSIVE sortTasks(_, _)
sortTasks(sort, s) ==
    IF s = <<>> THEN <<>>
    ELSE insertSorted(sort, sortTasks(sort, SubSeq(s, 1, Len(s) - 1)), s[Len(s)])

searchTasks(items, search) ==
    LET searchTerm == trim(toLowerCase(search))
        hit(t) == \/ includes(toLowerCase(t.title), searchTerm)
                  \/ includes(toLowerCase(t.description), searchTerm)
    IN IF searchTerm # <<>> THEN SelectSeq(items, hit) ELSE items

\* filterValue.split("-")[1] of a value that starts with "Priority-"
priorityOfFilter(filter) ==
    CASE filter = "Priority-Low" -> "Low"
      [] filter = "Priority-Medium" -> "Medium"
      [] filter = "Priority-High" -> "High"
      [] OTHER -> "none"

filterTasks(items, filter) ==
    LET byStatus(t) == t.status = filter
        byPriority(t) == t.priority = priorityOfFilter(filter)
    IN IF filter = "All" THEN items
       ELSE IF filter \in {"Completed", "Pending"} THEN SelectSeq(items, byStatus)
       ELSE IF priorityOfFilter(filter) # "none" THEN SelectSeq(items, byPriority)
       ELSE items

getFilteredAndSortedTasks(items, search, filter, sort) ==
    sortTasks(sort, filterTasks(searchTasks(items, search), filter))

idsOf(items) == [i \in 1..Len(items) |-> items[i].id]

-----------------------------------------------------------------------------
(* Inputs the user can type or select *)

Due == <<"d">>

TaskFormInputs ==
    { [title |-> <<" ", "A">>, description |-> <<"a", " ">>, dueDate |-> <<>>, priority |-> "Medium"],
      [title |-> <<" ">>, description |-> <<"a">>, dueDate |-> <<>>, priority |-> "Low"],
      [title |-> <<>>, description |-> <<>>, dueDate |-> <<>>, priority |-> "Medium"] }

EditFormInputs ==
    { [title |-> <<"b", " ">>, description |-> <<"b">>, dueDate |-> <<>>, priority |-> "Low"],
      [title |-> <<" ">>, description |-> <<>>, dueDate |-> Due, priority |-> "High"] }

\* Values of the search box, the filter select and the sort select
Queries ==
    { [search |-> <<>>, filter |-> "All", sort |-> "date-desc"],
      [search |-> <<"A">>, filter |-> "All", sort |-> "priority-desc"],
      [search |-> <<>>, filter |-> "Pending", sort |-> "date-desc"] }

\* A task an earlier session created at ClockStart, completed and stored
StoredTask ==
    [id |-> toString(ClockStart), title |-> <<"A">>, description |-> <<"a">>,
     priority |-> "Medium", dueDate |-> null, status |-> "Completed",
     createdAt |-> toISOString(ClockStart)]

StoredItems ==
    { Absent, Malformed, NullText, ObjectText,
      JSONstringify(Array(<<>>)), JSONstringify(Array(<<StoredTask>>)) }

-----------------------------------------------------------------------------
(* State machine *)

Init ==
    /\ pc = "loading"
    /\ storage \in StoredItems
    /\ now = IF storage.elems # <<>> THEN ClockStart + 1 ELSE ClockStart
    /\ tasks = NonArray("undefined")
    /\ taskToDeleteId = null
    /\ isEditing = FALSE
    /\ confirmModalActive = FALSE
    /\ editModalActive = FALSE
    /\ editTaskId = <<>>
    /\ searchValue = <<>>
    /\ filterValue = "All"
    /\ sortValue = "date-desc"
    /\ cards = <<>>
    /\ fading = {}
    /\ animating = {}
    /\ outcome = "none"

\* renderTasks on the array v with the controls' values: taskList.innerHTML is
\* replaced, so the old card elements and the listeners on them are gone.
\* On a value that is not an array, [...tasks] throws before anything changes.
\* A query that sorts tasks itself when neither the search nor the filter has
\* made a new array: let currentTasks = tasks
tasksSortedInPlace(v, search, filter, sort) ==
    IF v.type = "array" /\ trim(toLowerCase(search)) = <<>> /\ filter = "All"
    THEN Array(sortTasks(sort, v.items))
    ELSE v

\* The value of tasks once getFilteredAndSortedTasks has run on the value v:
\* let currentTasks = [...tasks] makes the search, the filter and the sort work on
\* a copy
tasksAfterQuery(v, search, filter, sort) == v

\* renderTasks with v the value of tasks when it is called
renderTasks(v, search, filter, sort) ==
    /\ tasks' = tasksAfterQuery(v, search, filter, sort)
    /\ IF v.type = "array"
       THEN /\ cards' = idsOf(getFilteredAndSortedTasks(v.items, search, filter, sort))
            /\ fading' = {}
            /\ animating' = {}
       ELSE UNCHANGED <<cards, fading, animating>>

rendered(v) == IF v.type = "array" THEN "done" ELSE "TypeError"

\* Line 39, then init(): JSON.parse throws on malformed text and the script stops;
\* otherwise a falsy value gives [], any other value is kept as it is.
Load ==
    /\ pc = "loading"
    /\ IF ~isJSON(storage)
       THEN /\ pc' = "crashed"
            /\ outcome' = "SyntaxError"
            /\ UNCHANGED <<tasks, cards, fading, animating>>
       ELSE LET v == loadTasks(storage)
            IN /\ pc' = "running"
               /\ renderTasks(v, searchValue, filterValue, sortValue)
               /\ outcome' = rendered(v)
    /\ UNCHANGED <<now, storage, taskToDeleteId, isEditing, confirmModalActive,
                   editModalActive, editTaskId, searchValue, filterValue, sortValue>>

\* The wall clock advances between events
Tick ==
    /\ pc = "running"
    /\ now < ClockStart + MaxClock
    /\ now' = now + 1
    /\ UNCHANGED <<pc, storage, tasks, taskToDeleteId, isEditing, confirmModalActive,
                   editModalActive, editTaskId, searchValue, filterValue, sortValue,
                   cards, fading, animating, outcome>>

\* Submit of the new-task form with the typed values; Date.now() and new Date()
\* inside addTask read the clock at the same instant.
handleTaskFormSubmit(input) ==
    /\ pc = "running"
    /\ LET title == trim(input.title)
           taskData == [title |-> title, description |-> trim(input.description),
                        dueDate |-> input.dueDate, priority |-> input.priority]
       IN IF title = <<>>
          THEN /\ outcome' = "rejected"
               /\ UNCHANGED <<storage, tasks, cards, fading, animating>>
          ELSE IF tasks.type # "array"
          THEN /\ outcome' = "TypeError"
               /\ UNCHANGED <<storage, tasks, cards, fading, animating>>
          ELSE LET v == Array(addTask(tasks.items, taskData, now))
               IN /\ Len(tasks.items) < MaxTasks
                  /\ storage' = saveTasks(v)
                  /\ renderTasks(v, searchValue, filterValue, sortValue)
                  /\ outcome' = "done"
    /\ UNCHANGED <<pc, now, taskToDeleteId, isEditing, confirmModalActive,
                   editModalActive, editTaskId, searchValue, filterValue, sortValue>>

\* A click on an action button of a displayed card. The cards lie under the modal
\* overlays, so they take clicks only while no modal is active; cards exist only
\* when renderTasks succeeded, that is when tasks is an array.
cardClickable(id) ==
    /\ pc = "running"
    /\ tasks.type = "array"
    /\ \E i \in 1..Len(cards) : cards[i] = id
    /\ ~confirmModalActive
    /\ ~editModalActive

\* handleTaskActions, data-action="delete"
clickDelete(id) ==
    /\ cardClickable(id)
    /\ taskToDeleteId' = id
    /\ confirmModalActive' = TRUE
    /\ outcome' = "done"
    /\ UNCHANGED <<pc, now, storage, tasks, isEditing, editModalActive, editTaskId,
                   searchValue, filterValue, sortValue, cards, fading, animating>>

\* handleTaskActions, data-action="toggle": toggleTaskStatus(id). The re-render
\* waits for the card's animationend when the card is in the document.
clickToggle(id) ==
    /\ cardClickable(id)
    /\ IF findIndex(tasks.items, id) # 0
       THEN LET v == Array(toggleTaskStatus(tasks.items, id))
            IN /\ storage' = saveTasks(v)
               /\ IF \E i \in 1..Len(cards) : cards[i] = id
                  THEN /\ tasks' = v
                       /\ animating' = animating \cup {id}
                       /\ UNCHANGED <<cards, fading>>
                  ELSE renderTasks(v, searchValue, filterValue, sortValue)
               /\ outcome' = "done"
       ELSE /\ outcome' = "no-op"
            /\ UNCHANGED <<storage, tasks, cards, fading, animating>>
    /\ UNCHANGED <<pc, now, taskToDeleteId, isEditing, confirmModalActive,
                   editModalActive, editTaskId, searchValue, filterValue, sortValue>>

\* handleTaskActions, data-action="edit": showEditModal(id)
clickEdit(id) ==
    /\ cardClickable(id)
    /\ IF findIndex(tasks.items, id) # 0
       THEN /\ isEditing' = TRUE
            /\ editTaskId' = id
            /\ editModalActive' = TRUE
            /\ outcome' = "done"
       ELSE /\ outcome' = "no-op"
            /\ UNCHANGED <<isEditing, editTaskId, editModalActive>>
    /\ UNCHANGED <<pc, now, storage, tasks, taskToDeleteId, confirmModalActive,
                   searchValue, filterValue, sortValue, cards, fading, animating>>

\* Click on the confirm button of the confirmation modal: deleteTask(taskToDeleteId).
\* With the card in the document the removal is left to its transitionend listener.
handleConfirmDeletion ==
    /\ pc = "running"
    /\ confirmModalActive
    /\ IF taskToDeleteId # null
       THEN /\ IF \E i \in 1..Len(cards) : cards[i] = taskToDeleteId
               THEN /\ fading' = fading \cup {taskToDeleteId}
                    /\ outcome' = "deferred"
                    /\ UNCHANGED <<storage, tasks, cards, animating>>
               ELSE LET v == Array(deleteTask(tasks.items, taskToDeleteId))
                    IN /\ storage' = saveTasks(v)
                       /\ renderTasks(v, searchValue, filterValue, sortValue)
                       /\ outcome' = "done"
            /\ taskToDeleteId' = null
       ELSE /\ outcome' = "no-op"
            /\ UNCHANGED <<storage, tasks, cards, fading, animating, taskToDeleteId>>
    /\ confirmModalActive' = FALSE
    /\ UNCHANGED <<pc, now, isEditing, editModalActive, editTaskId,
                   searchValue, filterValue, sortValue>>

\* The transitionend listener deleteTask left on the card of id
transitionend(id) ==
    /\ pc = "running"
    /\ id \in fading
    /\ LET v == Array(deleteTask(tasks.items, id))
       IN /\ storage' = saveTasks(v)
          /\ renderTasks(v, searchValue, filterValue, sortValue)
    /\ outcome' = "done"
    /\ UNCHANGED <<pc, now, taskToDeleteId, isEditing, confirmModalActive,
                   editModalActive, editTaskId, searchValue, filterValue, sortValue>>

\* The animationend listener toggleTaskStatus left on the card of id
animationend(id) ==
    /\ pc = "running"
    /\ id \in animating
    /\ renderTasks(tasks, searchValue, filterValue, sortValue)
    /\ outcome' = "done"
    /\ UNCHANGED <<pc, now, storage, taskToDeleteId, isEditing,
                   confirmModalActive, editModalActive, editTaskId,
                   searchValue, filterValue, sortValue>>

\* Click on the cancel button of the confirmation modal
modalCancel ==
    /\ pc = "running"
    /\ confirmModalActive
    /\ confirmModalActive' = FALSE
    /\ outcome' = "done"
    /\ UNCHANGED <<pc, now, storage, tasks, taskToDeleteId, isEditing, editModalActive,
                   editTaskId, searchValue, filterValue, sortValue, cards, fading,
                   animating>>

\* Click on the cancel button of the edit modal
editModalCancel ==
    /\ pc = "running"
    /\ editModalActive
    /\ editModalActive' = FALSE
    /\ outcome' = "done"
    /\ UNCHANGED <<pc, now, storage, tasks, taskToDeleteId, isEditing,
                   confirmModalActive, editTaskId, searchValue, filterValue, sortValue,
                   cards, fading, animating>>

\* handleGlobalShortcuts, key Escape
keydownEscape ==
    /\ pc = "running"
    /\ IF confirmModalActive
       THEN confirmModalActive' = FALSE /\ taskToDeleteId' = null
       ELSE UNCHANGED <<confirmModalActive, taskToDeleteId>>
    /\ IF editModalActive
       THEN editModalActive' = FALSE /\ isEditing' = FALSE
       ELSE UNCHANGED <<editModalActive, isEditing>>
    /\ outcome' = "done"
    /\ UNCHANGED <<pc, now, storage, tasks, editTaskId, searchValue, filterValue,
                   sortValue, cards, fading, animating>>

\* handleGlobalShortcuts, key Enter with the focus in the title input of the task
\* form, which holds input: the submit event is dispatched when not editing and the
\* trimmed title is not empty
keydownEnter(input) ==
    /\ pc = "running"
    /\ IF ~isEditing
       THEN IF trim(input.title) # <<>>
            THEN handleTaskFormSubmit(input)
            ELSE /\ outcome' = "rejected"
                 /\ UNCHANGED <<pc, now, storage, tasks, taskToDeleteId, isEditing,
                                confirmModalActive, editModalActive, editTaskId,
                                searchValue, filterValue, sortValue, cards, fading,
                                animating>>
       ELSE /\ outcome' = "ignored"
            /\ UNCHANGED <<pc, now, storage, tasks, taskToDeleteId, isEditing,
                           confirmModalActive, editModalActive, editTaskId,
                           searchValue, filterValue, sortValue, cards, fading,
                           animating>>

\* Submit of the edit form with the typed values: updateTask(id, updatedData)
handleEditFormSubmit(input) ==
    /\ pc = "running"
    /\ editModalActive
    /\ tasks.type = "array"
    /\ LET updatedData == [title |-> trim(input.title),
                           description |-> trim(input.description),
                           dueDate |-> input.dueDate, priority |-> input.priority]
       IN IF findIndex(tasks.items, editTaskId) # 0
          THEN LET v == Array(updateTask(tasks.items, editTaskId, updatedData))
               IN /\ storage' = saveTasks(v)
                  /\ renderTasks(v, searchValue, filterValue, sortValue)
                  /\ outcome' = "done"
          ELSE /\ outcome' = "no-op"
               /\ UNCHANGED <<storage, tasks, cards, fading, animating>>
    /\ editModalActive' = FALSE
    /\ isEditing' = FALSE
    /\ UNCHANGED <<pc, now, taskToDeleteId, confirmModalActive, editTaskId,
                   searchValue, filterValue, sortValue>>

\* input event of the search box, change event of the filter or the sort select:
\* all three listeners are renderTasks, which reads the three controls. The user
\* has brought the controls to the values of query.
controlInput(query) ==
    /\ pc = "running"
    /\ query # [search |-> searchValue, filter |-> filterValue, sort |-> sortValue]
    /\ searchValue' = query.search
    /\ filterValue' = query.filter
    /\ sortValue' = query.sort
    /\ renderTasks(tasks, query.search, query.filter, query.sort)
    /\ outcome' = rendered(tasks)
    /\ UNCHANGED <<pc, now, storage, taskToDeleteId, isEditing,
                   confirmModalActive, editModalActive, editTaskId>>

\* The ids a card can carry
CardIds == {cards[i] : i \in 1..Len(cards)}

Next ==
    \/ Load
    \/ Tick
    \/ \E input \in TaskFormInputs : handleTaskFormSubmit(input)
    \/ \E id \in CardIds : clickDelete(id)
    \/ \E id \in CardIds : clickToggle(id)
    \/ \E id \in CardIds : clickEdit(id)
    \/ handleConfirmDeletion
    \/ \E id \in fading : transitionend(id)
    \/ \E id \in animating : animationend(id)
    \/ modalCancel
    \/ editModalCancel
    \/ keydownEscape
    \/ \E input \in TaskFormInputs : keydownEnter(input)
    \/ \E input \in EditFormInputs : handleEditFormSubmit(input)
    \/ \E query \in Queries : controlInput(query)

Spec == Init /\ [][Next]_vars

-----------------------------------------------------------------------------
(* Properties *)

items == tasks.items
isArray == tasks.type = "array"

\* C1: in every reachable state all tasks of the collection have pairwise distinct
\* ids, also when two of them were created by addTask within the same millisecond.
C1_UniqueIds ==
    isArray => \A i, j \in 1..Len(items) : i # j => items[i].id # items[j].id

\* C2: at startup, whatever the "tasks" item holds (nothing, malformed text, JSON
\* that is not an array, a stored task list), loading does not fail, and the
\* collection is the stored task list when the item holds one and empty otherwise.
C2_LoadNeverFails ==
    [][pc = "loading" =>
         /\ pc' = "running"
         /\ outcome' = "done"
         /\ tasks' = IF storage.kind = "array" /\ isJSON(storage)
                     THEN Array([i \in 1..Len(storage.elems) |-> parseTask(storage.elems[i])])
                     ELSE Array(<<>>)]_vars

\* C3: when a mutating operation (add, update, toggle, delete, and the removal that
\* deleteTask leaves to transitionend) has finished, the "tasks" item is the
\* serialization of the whole current collection in its current order, and a fresh
\* load from that item yields a list equal to the current one.
C3_BlobIsCollection ==
    [][(pc = "running" /\ (tasks' # tasks \/ storage' # storage)) =>
         /\ storage'.kind = "array"
         /\ Len(storage'.elems) = Len(tasks'.items)
         /\ \A i \in 1..Len(tasks'.items) : storage'.elems[i] = stringifyTask(tasks'.items[i])
         /\ isJSON(storage')
         /\ loadTasks(storage') = tasks']_vars

\* C3 witness: of two tasks with different ids the newer one, created Pending,
\* was completed, and the item holds both
C3_Witness ==
    /\ isArray
    /\ Len(items) = 2
    /\ items[1].status = "Completed"
    /\ items[1].id # items[2].id
    /\ storage.kind = "array"
    /\ Len(storage.elems) = 2

\* The typed title is empty or consists of blanks only
Blank(input) == \A i \in 1..Len(input.title) : input.title[i] = " "

\* C4: for every input whose title is not empty after trimming, one create adds
\* exactly one task: the new collection is the new task followed by the old
\* collection, the new task carries the given title, description, priority and due
\* date and is Pending, and every earlier task is unchanged.
C4_CreatePrepends ==
    [][\A input \in TaskFormInputs :
         (~Blank(input) /\ handleTaskFormSubmit(input)) =>
            /\ tasks'.type = "array"
            /\ Len(tasks'.items) = Len(tasks.items) + 1
            /\ Tail(tasks'.items) = tasks.items
            /\ Head(tasks'.items).title = trim(input.title)
            /\ Head(tasks'.items).description = trim(input.description)
            /\ Head(tasks'.items).priority = input.priority
            /\ Head(tasks'.items).dueDate = IF input.dueDate = <<>> THEN null ELSE input.dueDate
            /\ Head(tasks'.items).status = "Pending"]_vars

C6_TitlesNonEmptyTrimmed ==
    isArray => \A i \in 1..Len(items) :
                 /\ items[i].title # <<>>
                 /\ Head(items[i].title) # " "
                 /\ items[i].title[Len(items[i].title)] # " "

\* C7: a delete removes exactly one task: the collection gets exactly one shorter
\* and the remaining tasks keep their fields and their relative order.
C7_DeleteRemovesExactlyOne ==
    [][(isArray /\ Len(tasks'.items) < Len(items)) =>
         \E i \in 1..Len(items) :
            tasks'.items = SubSeq(items, 1, i - 1) \o SubSeq(items, i + 1, Len(items))]_vars

\* C8: every store operation runs to completion before the next event: when
\* handleConfirmDeletion has run for a pending id, the task is out of the collection
\* and the stored item is rewritten, before any other handler runs.
C8_DeletionRunsToCompletion ==
    [][(taskToDeleteId # null /\ handleConfirmDeletion) =>
         /\ \A i \in 1..Len(tasks'.items) : tasks'.items[i].id # taskToDeleteId
         /\ storage' = JSONstringify(tasks')]_vars

\* The fields the edit form supplies, and sample values for a partial update
EditableKeys == {"title", "description", "dueDate", "priority"}
SampleUpdate == [title |-> <<"z">>, description |-> <<"y">>, dueDate |-> <<"2">>,
                 priority |-> "High"]

\* new is old with exactly the fields of updatedData replaced on the first task
\* whose id is id, and is old when no task has that id
UpdatedOnly(old, new, id, updatedData) ==
    /\ Len(new) = Len(old)
    /\ \A j \in 1..Len(old) :
          IF old[j].id = id /\ \A h \in 1..(j - 1) : old[h].id # id
          THEN /\ \A k \in DOMAIN updatedData : new[j][k] = updatedData[k]
               /\ \A k \in (DOMAIN old[j]) \ (DOMAIN updatedData) : new[j][k] = old[j][k]
               /\ DOMAIN new[j] = DOMAIN old[j]
          ELSE new[j] = old[j]

\* C9: update(id, partial) changes only the fields supplied in partial on the task
\* with that id: id and createdAt never change, the task keeps its position, all
\* other tasks are unchanged, and an empty partial leaves the collection unchanged.
\* Checked of updateTask on every reachable collection with every subset of the
\* edit form's fields, and of every edit submission.
C9_UpdateChangesOnlySupplied ==
    /\ [](isArray =>
            \A id \in {items[i].id : i \in 1..Len(items)} \cup {<<"0">>} :
               \A S \in SUBSET EditableKeys :
                  LET partial == [k \in S |-> SampleUpdate[k]]
                  IN /\ UpdatedOnly(items, updateTask(items, id, partial), id, partial)
                     /\ S = {} => updateTask(items, id, partial) = items)
    /\ [][\A input \in EditFormInputs :
            handleEditFormSubmit(input) =>
               /\ tasks'.type = "array"
               /\ UpdatedOnly(items, tasks'.items, editTaskId,
                              [title |-> trim(input.title),
                               description |-> trim(input.description),
                               dueDate |-> input.dueDate,
                               priority |-> input.priority])]_vars

\* C9 witness: the second of two tasks was completed and then edited
C9_Witness ==
    /\ isArray
    /\ Len(items) = 2
    /\ items[2].title = <<"b">>
    /\ items[2].priority = "Low"
    /\ items[2].status = "Completed"
    /\ items[1].title = <<"A">>
    /\ outcome = "done"
    /\ ~editModalActive

\* new holds the tasks of old with their statuses, but for the removal of all
\* tasks of one id or the insertion of one Pending task at the head
StatusesKept(old, new) ==
    \/ /\ Len(new) = Len(old)
       /\ \A j \in 1..Len(old) : new[j].id = old[j].id /\ new[j].status = old[j].status
    \/ /\ Len(new) = Len(old) + 1
       /\ Head(new).status = "Pending"
       /\ Tail(new) = old
    \/ /\ Len(new) < Len(old)
       /\ \E f \in [1..Len(new) -> 1..Len(old)] :
             /\ \A j \in 1..Len(new) : new[j] = old[f[j]]
             /\ \A j, h \in 1..Len(new) : j < h => f[j] < f[h]

\* C10: a task is Pending when created, and a task's status changes only in a
\* toggle step for that task's id: no create, edit, delete, render or other step
\* changes the status of an existing task.
C10_StatusChangesOnlyByToggle ==
    [][pc = "running" =>
         /\ \A id \in CardIds :
               clickToggle(id) =>
                  /\ Len(tasks'.items) = Len(items)
                  /\ \A j \in 1..Len(items) :
                        /\ tasks'.items[j].id = items[j].id
                        /\ tasks'.items[j].status # items[j].status => items[j].id = id
         /\ (~ \E id \in CardIds : clickToggle(id)) => StatusesKept(items, tasks'.items)]_vars

\* C10 witness: the newer of two tasks, created Pending, was completed and edited;
\* the older one is Pending
C10_Witness ==
    /\ isArray
    /\ Len(items) = 2
    /\ items[1].status = "Completed"
    /\ items[1].title = <<"b">>
    /\ items[2].status = "Pending"
    /\ items[2].title = <<"A">>

\* The ids of the collection, and an id no task has
TaskIds == {items[i].id : i \in 1..Len(items)}
NoSuchId == <<"0">>

\* C11: toggleStatus is its own inverse: on every reachable collection and for every
\* id in it, two toggles in succession give back the collection and the stored
\* item; and one toggle flips the status of the task with that id between Pending
\* and Completed and changes nothing else.
C11_ToggleIsInvolution ==
    /\ [](isArray =>
            \A id \in TaskIds :
               LET once == toggleTaskStatus(items, id)
                   twice == toggleTaskStatus(once, id)
               IN /\ twice = items
                  /\ once # items
                  /\ saveTasks(Array(twice)) = storage)
    /\ [][\A id \in CardIds :
            clickToggle(id) =>
               /\ Len(tasks'.items) = Len(items)
               /\ \E i \in 1..Len(items) :
                     /\ items[i].id = id
                     /\ tasks'.items[i].status # items[i].status
                     /\ tasks'.items[i].status \in {"Pending", "Completed"}
                     /\ tasks'.items = [items EXCEPT ![i].status = tasks'.items[i].status]
               /\ storage' = JSONstringify(tasks')]_vars

\* C11 witness: a task was toggled to Completed and back to Pending while its card
\* still waits for the animation of a toggle, beside another task that is Completed
C11_Witness ==
    /\ isArray
    /\ Len(items) = 2
    /\ items[1].status = "Pending"
    /\ items[1].id \in animating
    /\ items[2].status = "Completed"
    /\ items[2].id \in animating
    /\ items[1].id # items[2].id

\* The ids the handlers can be given that no task of the collection has
AbsentIds == {NoSuchId, editTaskId, taskToDeleteId} \ TaskIds

C12_DeleteAbsentReached ==
    /\ isArray
    /\ confirmModalActive
    /\ taskToDeleteId # null
    /\ taskToDeleteId \notin TaskIds

\* ---------------------------------------------------------------------------
\* Sessions that start from a stored task list and only use the controls
\* ---------------------------------------------------------------------------

PoolSize == 4

\* The clock reading at which the k-th task of the pool was added: the second and
\* the third were added within the same millisecond
PoolClock(k) == (k + 2) \div 2

\* The k-th task the program has stored, as addTask, updateTask and toggleTaskStatus
\* leave one
PoolTask(k) ==
    [id |-> generateUniqueId(PoolClock(k)),
     title |-> CASE k % 4 = 1 -> <<"a">> [] k % 4 = 2 -> <<"B">>
                 [] k % 4 = 3 -> <<"b">> [] OTHER -> <<"A">>,
     description |-> IF k % 3 = 2 THEN <<"a">> ELSE <<>>,
     priority |-> CASE k % 4 = 1 -> "Low" [] k % 4 = 2 -> "High"
                    [] k % 4 = 3 -> "Low" [] OTHER -> "Medium",
     dueDate |-> null,
     status |-> IF k % 3 = 0 THEN "Completed" ELSE "Pending",
     createdAt |-> toISOString(PoolClock(k))]

\* The tasks of S as the program stores them, the newest first
RECURSIVE StoredList(_)
StoredList(S) ==
    IF S = {} THEN <<>>
    ELSE LET k == CHOOSE m \in S : \A n \in S : n <= m
         IN <<PoolTask(k)>> \o StoredList(S \ {k})

QueryStoredItems == {JSONstringify(Array(StoredList(S))) : S \in SUBSET (1..PoolSize)}

\* The values the user can bring the three controls to
AllQueries ==
    [search : {<<>>, <<" ">>, <<"A">>},
     filter : {"All", "Completed", "Pending", "Priority-Low", "Priority-Medium",
               "Priority-High"},
     sort : {"date-desc", "date-asc", "priority-desc", "priority-asc", "status-desc",
             "none"}]

QueryInit ==
    /\ pc = "loading"
    /\ storage \in QueryStoredItems
    /\ now = ClockStart
    /\ tasks = NonArray("undefined")
    /\ taskToDeleteId = null
    /\ isEditing = FALSE
    /\ confirmModalActive = FALSE
    /\ editModalActive = FALSE
    /\ editTaskId = <<>>
    /\ searchValue = <<>>
    /\ filterValue = "All"
    /\ sortValue = "date-desc"
    /\ cards = <<>>
    /\ fading = {}
    /\ animating = {}
    /\ outcome = "none"

QueryNext ==
    \/ Load
    \/ \E query \in AllQueries : controlInput(query)

QuerySpec == QueryInit /\ [][QueryNext]_vars

\* The view the controls ask for, and the tasks the search and the filter let through
view == getFilteredAndSortedTasks(items, searchValue, filterValue, sortValue)
selected == filterTasks(searchTasks(items, searchValue), filterValue)

Rendered == pc = "running" /\ isArray

\* The place of a task in the stored collection
pos(t) == CHOOSE i \in 1..Len(items) : items[i] = t

PriorityRank(p) == CASE p = "High" -> 3 [] p = "Medium" -> 2 [] p = "Low" -> 1

SameTasks(v, s) ==
    /\ Len(v) = Len(s)
    /\ \A i \in 1..Len(s) : \E j \in 1..Len(v) : v[j] = s[i]

SamePriorityKeepOrder(v) ==
    \A i, j \in 1..Len(v) :
        (i < j /\ v[i].priority = v[j].priority) => pos(v[i]) < pos(v[j])

AllStored == Rendered /\ Len(items) = PoolSize /\ searchValue = <<>> /\ filterValue = "All"

\* C13 (as stated): sorting by priority-asc gives the same order as sorting by
\* priority-desc: High tasks first, then Medium, then Low.
C13_PriorityAscSameAsDesc ==
    (Rendered /\ sortValue = "priority-asc") =>
        /\ view = getFilteredAndSortedTasks(items, searchValue, filterValue, "priority-desc")
        /\ \A i, j \in 1..Len(view) :
              i < j => PriorityRank(view[i].priority) >= PriorityRank(view[j].priority)

\* C13 (amended): sorting by priority-asc lists the selected tasks with every Low
\* task before every Medium and every Medium before every High, tasks of the same
\* priority in their stored order; the cards are rendered in that order.
C13_PriorityAscLowFirst ==
    (Rendered /\ sortValue = "priority-asc") =>
        /\ SameTasks(view, selected)
        /\ \A i, j \in 1..Len(view) :
              i < j => PriorityRank(view[i].priority) <= PriorityRank(view[j].priority)
        /\ SamePriorityKeepOrder(view)
        /\ cards = idsOf(view)

\* C13 witness: the whole stored list, with its three priorities, sorted by
\* priority-asc: a Low task leads and a High task closes the view
C13_Witness ==
    /\ AllStored
    /\ sortValue = "priority-asc"
    /\ view[1].priority = "Low"
    /\ view[Len(view)].priority = "High"
    /\ cards = idsOf(view)

\* C14: under priority-desc the view lists every High task before every Medium
\* and every Medium before every Low, and two tasks of the same priority keep the
\* relative order they have in the stored collection.
C14_PriorityDescStable ==
    (Rendered /\ sortValue = "priority-desc") =>
        /\ SameTasks(view, selected)
        /\ \A i, j \in 1..Len(view) :
              i < j => PriorityRank(view[i].priority) >= PriorityRank(view[j].priority)
        /\ SamePriorityKeepOrder(view)
        /\ cards = idsOf(view)

\* C14 witness: the whole stored list sorted by priority-desc: the High task moved
\* to the head and the two Low tasks close the view in their stored order
C14_Witness ==
    /\ AllStored
    /\ sortValue = "priority-desc"
    /\ view # items
    /\ view[1].priority = "High"
    /\ view[Len(view) - 1].priority = "Low"
    /\ view[Len(view)].priority = "Low"
    /\ pos(view[Len(view) - 1]) < pos(view[Len(view)])

KnownSortKeys == {"date-desc", "date-asc", "priority-desc", "priority-asc", "status-desc"}

\* C15: with an empty search text, the filter All and a sort key that is not one of
\* the five known keys, the view is exactly the stored collection: the same tasks
\* in the same order.
C15_IdentityLaw ==
    (Rendered /\ searchValue = <<>> /\ filterValue = "All"
              /\ sortValue \notin KnownSortKeys) =>
        /\ view = items
        /\ cards = idsOf(items)

\* C15 witness: the whole stored list viewed with the sort key none
C15_Witness ==
    /\ AllStored
    /\ sortValue = "none"
    /\ outcome = "done"
    /\ cards = idsOf(items)

\* C16: computing a view never changes the store: whatever search text, filter and
\* sort key the controls are brought to, the render they trigger leaves the stored
\* collection, with its order, and the stored item as they were; and the render
\* of the start leaves the collection as it was loaded.
C16_ViewLeavesStore ==
    /\ [][\A query \in AllQueries :
            controlInput(query) => (tasks' = tasks /\ storage' = storage)]_vars
    /\ [][(Load /\ isJSON(storage)) =>
            (tasks' = loadTasks(storage) /\ storage' = storage)]_vars

\* C16 witness: the whole stored list is displayed oldest first, in an order that
\* is not the stored one, and collection and item are those of the start
C16_Witness ==
    /\ AllStored
    /\ sortValue = "date-asc"
    /\ cards = idsOf(view)
    /\ view # items
    /\ items = StoredList(1..PoolSize)
    /\ storage = JSONstringify(tasks)

\* C17: the stored collection is in reverse-chronological insertion order: of any
\* two tasks in it the one nearer the head was not created before the other
\* (createdAt never increases from the head on), whatever was added, edited,
\* toggled or deleted.
C17_ReverseChronological ==
    isArray =>
        \A i, j \in 1..Len(items) :
            i < j => dateValue(items[i].createdAt) >= dateValue(items[j].createdAt)

\* C17 witness: two tasks created at different times, both edited since, the one
\* created later at the head
C17_Witness ==
    /\ isArray
    /\ Len(items) = 2
    /\ dateValue(items[1].createdAt) > dateValue(items[2].createdAt)
    /\ items[1].title = <<"b">>
    /\ items[2].priority = "High"

\* C18: once a deletion was confirmed for a displayed card, the task is removed
\* from the collection and the stored item whatever is handled before the card's
\* transitionend: as long as the task is in the collection its removal stays
\* pending, no step drops it.
C18_ConfirmedDeletionNeverLost ==
    [][\A id \in fading :
          \/ id \in fading'
          \/ /\ \A i \in 1..Len(tasks'.items) : tasks'.items[i].id # id
             /\ storage' = JSONstringify(tasks')]_vars

\* C19: after every handler isEditing is true exactly when the edit modal is
\* active: the edit form's submit, the edit modal's cancel button and the Escape
\* key all reset it, so Enter in the title input is never ignored while no edit
\* modal is open.
C19_EditingIffEditModal ==
    /\ pc = "running" => (isEditing <=> editModalActive)
    /\ outcome = "ignored" => editModalActive

\* C20: after every handler taskToDeleteId is non-null only while the confirmation
\* modal is active: the cancel button and the Escape key leave no pending id
\* behind.
C20_PendingIdOnlyWhileConfirming ==
    (pc = "running" /\ taskToDeleteId # null) => confirmModalActive

====
